---- MODULE Spec2Model ----
(***************************************************************************)
(* InkGenius: the App component (wizard, artist search, project gallery),  *)
(* its seven react-query mutations, the gemini service functions behind    *)
(* them and the localStorage key 'inkgenius_projects'.                     *)
(*                                                                         *)
(* One state of the model is one committed render of App together with    *)
(* the requests in flight, the stored value and the clock.  One step is    *)
(* one event handler, one step of a request, or a page reload.             *)
(***************************************************************************)
EXTENDS Integers, Sequences, FiniteSets, TLC

(***************************************************************************)
(* Bounds of the model.                                                    *)
(***************************************************************************)
MaxClock == 2
MaxProjects == 2
MaxConversation == 2
MaxInflight == 2

(***************************************************************************)
(* Values.                                                                 *)
(***************************************************************************)
NULL == "null"
UNDEFINED == "undefined"

AppStep == {"START", "DESIGN", "TRY_ON", "DONE", "FIND_ARTIST", "GALLERY"}

ContractStatus == {"Pending", "Approved", "In Progress", "Completed"}

\* The mutations of App, by the service function each one calls.
MutationTypes ==
    {"generateTattoo", "blendTattoo", "findArtists", "searchReference",
     "describeStyle", "generateStencil", "artistResponse"}

\* Service functions that await fileToPart(image) before the SDK call.
\* findArtists does so only when it is given an image.
NeedsFile(type, arg) ==
    \/ type \in {"describeStyle", "blendTattoo", "generateStencil"}
    \/ type = "findArtists" /\ arg # NULL

\* useMutation is used without a retry option and the QueryClient is built
\* without default options: a failed mutation is not retried.
RetryCountOne == 0 + 1
RetryCount == 0

\* Error values.  RawError is the error of the SDK (or of the FileReader)
\* itself; every other error is built by a service function.
RawError == "raw underlying error"
RawTypeError == "TypeError: response.text is undefined"
ErrGenerate == "Failed to generate tattoo designs."
ErrGenerateUnknown == "An unknown error occurred while generating tattoo designs."
ErrReference == "Failed to find reference images."
ErrArtists == "Failed to find artists."
ErrReply == "Failed to get a response from the artist AI."
ErrBlocked == "Request was blocked."
ErrStopped == "stopped unexpectedly"
ErrNoImage == "The AI model did not return an image"
WrappedErrors ==
    {ErrGenerate, ErrGenerateUnknown, ErrReference, ErrArtists, ErrReply, ErrBlocked, ErrStopped, ErrNoImage}

\* `data:${mimeType};base64,${data}`
DataUri(mimeType, data) == "data:" \o mimeType \o ";base64," \o data

(***************************************************************************)
(* Artists found by the search: an untyped blob per artist; the model      *)
(* keeps the fields App reads.                                              *)
(***************************************************************************)
Unassigned == "Unassigned"
ArtistIds == {"a1", "a2"}
ArtistSpecialties(a) ==
    IF a = "a1" THEN <<"Realism">> ELSE IF a = "a2" THEN <<"Realism", "Fine-line">> ELSE <<>>
ArtistHasCoords(a) == a = "a1"
ArtistAccepting(a) == a = "a2"
ArtistStyleMatch(a) == a = "a2"

(***************************************************************************)
(* State.                                                                  *)
(***************************************************************************)
VARIABLES
    appStep, prompt, generatedTattoos, selectedTattoo, tryOnImage, finalImage,
    referenceSearchQuery, referenceImages, selectedReferenceImage, styleDescription,
    artists, artistSearchSources, artistSpecialtyFilter, artistAvailabilityFilter,
    artistSort, allSpecialties, bookingArtist, locationSearch, mapCenter,
    selectedArtistId, searchedForArtists,
    projects, viewingProject,
    storage, storageWorks, lastWrite,
    mut, inflight,
    now,
    svcCall, svcResult

wizardVars == <<appStep, prompt, generatedTattoos, selectedTattoo, tryOnImage, finalImage>>
refVars == <<referenceSearchQuery, referenceImages, selectedReferenceImage, styleDescription>>
artistVars ==
    <<artists, artistSearchSources, artistSpecialtyFilter, artistAvailabilityFilter,
      artistSort, allSpecialties, bookingArtist, locationSearch, mapCenter,
      selectedArtistId, searchedForArtists>>
projVars == <<projects, viewingProject>>
storeVars == <<storage, storageWorks, lastWrite>>
netVars == <<mut, inflight>>
\* A service function called on its own: the function and its arguments
\* (with the answer the SDK gives), and what the caller gets.
svcVars == <<svcCall, svcResult>>
vars == <<wizardVars, refVars, artistVars, projVars, storeVars, netVars, now, svcVars>>

(***************************************************************************)
(* Sequence helpers.                                                       *)
(***************************************************************************)
Range(s) == {s[i] : i \in DOMAIN s}

RemoveAt(s, i) == SubSeq(s, 1, i - 1) \o SubSeq(s, i + 1, Len(s))

RECURSIVE SelectSeqBy(_, _)
\* s.filter(x => x \in keep)
SelectSeqBy(s, keep) ==
    IF s = <<>> THEN <<>>
    ELSE (IF Head(s) \in keep THEN <<Head(s)>> ELSE <<>>) \o SelectSeqBy(Tail(s), keep)

RECURSIVE Unique(_)
\* [...new Set(s)]: first occurrences, in order
Unique(s) ==
    IF s = <<>> THEN <<>>
    ELSE LET init == Unique(SubSeq(s, 1, Len(s) - 1))
             last == s[Len(s)]
         IN IF last \in Range(init) THEN init ELSE Append(init, last)

\* artists.flatMap(a => a.specialties || [])
RECURSIVE FlatMapSpecialties(_)
FlatMapSpecialties(s) ==
    IF s = <<>> THEN <<>> ELSE ArtistSpecialties(Head(s)) \o FlatMapSpecialties(Tail(s))

(***************************************************************************)
(* Projects and their persisted form.  A Message is {sender, text}: its     *)
(* timestamp, which nothing reads, is left out.  'proj_' + Date.now() is   *)
(* the clock reading.                                                      *)
(***************************************************************************)
ProjectKeys ==
    {"id", "designImage", "stencilImage", "artist", "savedAt", "conversation", "contract"}

\* The Project as it would be built with a status outside the type's four.
NewProjectLowercase(artist, design, clock) ==
    [id |-> clock,
     designImage |-> design,
     stencilImage |-> UNDEFINED,
     artist |-> artist,
     savedAt |-> clock,
     conversation |-> <<>>,
     contract |-> [status |-> "pending", price |-> "", appointmentDate |-> ""]]

\* The Project built by handleSaveProject: no stencilImage key.
NewProject(artist, design, clock) ==
    [id |-> clock,
     designImage |-> design,
     stencilImage |-> UNDEFINED,
     artist |-> artist,
     savedAt |-> clock,
     conversation |-> <<>>,
     contract |-> [status |-> "Pending", price |-> "", appointmentDate |-> ""]]

\* JSON.stringify of one Project: a key whose value is undefined is left out.
StringifyProject(p) ==
    [k \in {key \in ProjectKeys : key # "stencilImage" \/ p[key] # UNDEFINED} |-> p[k]]

\* JSON.stringify(projects)
Stringify(ps) == [i \in 1..Len(ps) |-> StringifyProject(ps[i])]

\* JSON.parse of one stored object: reading a key that is not there
\* gives undefined.
ParseProject(o) ==
    [id |-> o["id"],
     designImage |-> o["designImage"],
     stencilImage |-> IF "stencilImage" \in DOMAIN o THEN o["stencilImage"] ELSE UNDEFINED,
     artist |-> o["artist"],
     savedAt |-> o["savedAt"],
     conversation |-> o["conversation"],
     contract |-> o["contract"]]

\* JSON.parse(text)
Parse(text) == [i \in 1..Len(text) |-> ParseProject(text[i])]

\* localStorage.getItem('inkgenius_projects'): absent (null), a value that
\* is not JSON, or JSON text.
StoredAbsent == [kind |-> "absent", text |-> <<>>]
StoredCorrupt == [kind |-> "corrupt", text |-> <<>>]
Stored(text) == [kind |-> "json", text |-> text]

\* The mount effect: projects stay [] unless a value is stored and parses.
LoadProjects(st) == IF st.kind = "json" THEN Parse(st.text) ELSE <<>>

\* localStorage.setItem(key, JSON.stringify(ps)); ok = FALSE is a write that
\* throws (quota exceeded, storage disabled): the stored value stays.
\* storageWorks tells whether a write made now succeeds.
SetItem(st, ps, ok) == IF ok THEN Stored(Stringify(ps)) ELSE st

\* projects.map(p => p.id === projectId ? { ...p, ...updates } : p)
ApplyUpdates(ps, projectId, field, value) ==
    [i \in 1..Len(ps) |->
        IF ps[i].id = projectId THEN [ps[i] EXCEPT ![field] = value] ELSE ps[i]]

\* projects.filter(p => p.id !== id)
RECURSIVE WithoutId(_, _)
WithoutId(ps, id) ==
    IF ps = <<>> THEN <<>>
    ELSE (IF Head(ps).id # id THEN <<Head(ps)>> ELSE <<>>) \o WithoutId(Tail(ps), id)

\* Header's galleryItemCount prop, and the badge that shows it.
galleryItemCount == Len(projects)
galleryBadgeShown == galleryItemCount > 0

(***************************************************************************)
(* Requests.                                                               *)
(*                                                                         *)
(* mut[t] is what the observer of mutation t reports (status and error of  *)
(* the mutation started last).  inflight holds every request that has not  *)
(* settled, in the order of issue.  A request started while an earlier one *)
(* of its type is in flight takes the observer over; the earlier one keeps *)
(* running with the onSuccess closure of the render before the take-over   *)
(* (cur = FALSE, snapP and snapV are that render's projects and            *)
(* viewingProject); the request the observer follows gets the closure of   *)
(* every new render (cur = TRUE).                                          *)
(***************************************************************************)
Idle == [status |-> "idle", error |-> NULL]
Pending == [status |-> "pending", error |-> NULL]
Success == [status |-> "success", error |-> NULL]
Failed(e) == [status |-> "error", error |-> e]

NewRequest(type, arg) ==
    [type |-> type, arg |-> arg,
     calls |-> IF NeedsFile(type, arg) THEN 0 ELSE 1,
     cur |-> TRUE, snapP |-> <<>>, snapV |-> <<>>]

\* The requests of one type now in flight.
InFlightOf(type) == {i \in 1..Len(inflight) : inflight[i].type = type}

\* observer.mutate(arg): the earlier requests of the type are left alone but
\* lose the observer, and keep the closure they have at this moment.
Supersede(reqs, type) ==
    [i \in 1..Len(reqs) |->
        IF reqs[i].type = type /\ reqs[i].cur
        THEN [reqs[i] EXCEPT !.cur = FALSE,
                             !.snapP = IF type \in {"generateStencil", "artistResponse"}
                                       THEN projects ELSE <<>>,
                             !.snapV = IF type \in {"generateStencil", "artistResponse"}
                                       THEN viewingProject ELSE <<>>]
        ELSE reqs[i]]

Mutate(type, arg) ==
    /\ Len(inflight) < MaxInflight
    /\ inflight' = Append(Supersede(inflight, type), NewRequest(type, arg))
    /\ mut' = [mut EXCEPT ![type] = Pending]

\* Derived state of App.
isLoading == \E t \in MutationTypes : mut[t].status = "pending"
error ==
    IF mut["generateTattoo"].error # NULL THEN mut["generateTattoo"].error
    ELSE IF mut["blendTattoo"].error # NULL THEN mut["blendTattoo"].error
    ELSE IF mut["findArtists"].error # NULL THEN mut["findArtists"].error
    ELSE IF mut["searchReference"].error # NULL THEN mut["searchReference"].error
    ELSE IF mut["describeStyle"].error # NULL THEN mut["describeStyle"].error
    ELSE IF mut["generateStencil"].error # NULL THEN mut["generateStencil"].error
    ELSE mut["artistResponse"].error
errorPanelShown == error # NULL
loadingOverlayShown == isLoading

(***************************************************************************)
(* The state after construction and the mount effect: everything at its    *)
(* useState default, projects loaded from what earlier sessions stored.    *)
(***************************************************************************)
\* What an earlier session can have stored: nothing, or the array after
\* some saves and deletes, the saves made before this session's clock
\* values.  StoredCorrupt is a value that JSON.parse rejects.
InitialStorage ==
    {StoredAbsent, StoredCorrupt,
     Stored(Stringify(<<NewProject(Unassigned, DataUri("image/png", "B0"), 0)>>))}

ComponentInit ==
    /\ appStep = "START"
    /\ prompt = ""
    /\ generatedTattoos = <<>>
    /\ selectedTattoo = NULL
    /\ tryOnImage = NULL
    /\ finalImage = NULL
    /\ referenceSearchQuery = ""
    /\ referenceImages = <<>>
    /\ selectedReferenceImage = NULL
    /\ styleDescription = ""
    /\ artists = <<>>
    /\ artistSearchSources = <<>>
    /\ artistSpecialtyFilter = <<>>
    /\ artistAvailabilityFilter = "all"
    /\ artistSort = "default"
    /\ allSpecialties = <<>>
    /\ bookingArtist = NULL
    /\ locationSearch = "New York City"
    /\ mapCenter = NULL
    /\ selectedArtistId = NULL
    /\ searchedForArtists = FALSE
    /\ viewingProject = <<>>
    /\ mut = [t \in MutationTypes |-> Idle]
    /\ inflight = <<>>

AppInit ==
    /\ ComponentInit
    /\ storage \in InitialStorage
    /\ projects = LoadProjects(storage)
    /\ storageWorks = TRUE
    /\ lastWrite = "none"
    /\ now = 1

\* No service function is called on its own.
NoCall == [fn |-> "none"]

Init ==
    /\ AppInit
    /\ svcCall = NoCall
    /\ svcResult = <<>>

(***************************************************************************)
(* The service functions (geminiService.ts).  Each takes the answer of the *)
(* SDK call and gives what the caller gets: ok with the data, or the error *)
(* thrown.  An answer of kind "reject" is a rejected SDK promise.          *)
(***************************************************************************)
Ok(data) == [ok |-> TRUE, data |-> data, error |-> NULL]
Err(e) == [ok |-> FALSE, data |-> NULL, error |-> e]

Reject == [kind |-> "reject"]

\* generatedImages.map(img => `data:${mimeType};base64,${imageBytes}`)
ImageUris(images) ==
    [i \in 1..Len(images) |-> DataUri(images[i].mimeType, images[i].imageBytes)]

\* generateTattooDesign as it would be without the check for an empty list.
generateTattooDesignUnchecked(resp) ==
    IF resp.kind = "reject" THEN Err(ErrGenerate)
    ELSE IF resp.kind = "rejectValue" THEN Err(ErrGenerateUnknown)
    ELSE Ok(ImageUris(resp.generatedImages))

\* The catch wraps an Error under the prefix; a rejection with a value that
\* is no Error gets the function's other message.
generateTattooDesign(resp) ==
    IF resp.kind = "reject" THEN Err(ErrGenerate)
    ELSE IF resp.kind = "rejectValue" THEN Err(ErrGenerateUnknown)
    ELSE IF resp.generatedImages = <<>> THEN Err(ErrGenerate)
    ELSE Ok(ImageUris(resp.generatedImages))

searchReferenceImages(resp) ==
    IF resp.kind \in {"reject", "rejectValue"} THEN Err(ErrReference)
    ELSE IF resp.generatedImages = <<>> THEN Err(ErrReference)
    ELSE Ok(ImageUris(resp.generatedImages))

\* No try/catch: a rejected call, and a response without text, reach the
\* caller as they are.
describeImageStyle(resp) ==
    IF resp.kind = "reject" THEN Err(RawError)
    ELSE IF resp.text = UNDEFINED THEN Err(RawTypeError)
    ELSE Ok(resp.text)

\* The first part of the first candidate that has inlineData.
RECURSIVE FindImagePart(_)
FindImagePart(parts) ==
    IF parts = <<>> THEN <<>>
    ELSE IF Head(parts).isImage THEN <<Head(parts)>>
    ELSE FindImagePart(Tail(parts))

\* handleImageEditApiResponse as it would be if it looked for the image
\* before the block reason.
handleImageEditApiResponseImageFirst(resp) ==
    LET imagePartFromResponse == FindImagePart(resp.parts)
    IN IF imagePartFromResponse # <<>>
       THEN Ok(DataUri(imagePartFromResponse[1].mimeType, imagePartFromResponse[1].data))
       ELSE IF resp.blockReason # NULL THEN Err(ErrBlocked)
       ELSE IF resp.finishReason # NULL /\ resp.finishReason # "STOP"
            THEN Err(ErrStopped)
            ELSE Err(ErrNoImage)

handleImageEditApiResponse(resp) ==
    IF resp.blockReason # NULL THEN Err(ErrBlocked)
    ELSE LET imagePartFromResponse == FindImagePart(resp.parts)
         IN IF imagePartFromResponse # <<>>
            THEN Ok(DataUri(imagePartFromResponse[1].mimeType, imagePartFromResponse[1].data))
            ELSE IF resp.finishReason # NULL /\ resp.finishReason # "STOP"
                 THEN Err(ErrStopped)
                 ELSE Err(ErrNoImage)

\* No try/catch around the SDK call.
blendVirtualTattoo(resp) ==
    IF resp.kind = "reject" THEN Err(RawError) ELSE handleImageEditApiResponse(resp)

generateTattooStencil(resp) ==
    IF resp.kind = "reject" THEN Err(RawError) ELSE handleImageEditApiResponse(resp)

\* groundingChunks.map(c => c.web).filter(w => w?.uri && w?.title), then
\* the reduce that drops a uri already taken.
\* The sources as they would be if a uri were kept at its last occurrence.
DedupeSourcesLast(chunks) ==
    LET valid == SelectSeq(chunks, LAMBDA w : w.uri # NULL /\ w.title # NULL)
        keep == {i \in DOMAIN valid :
                    \A j \in DOMAIN valid : j > i => valid[j].uri # valid[i].uri}
        acc[n \in 0..Len(valid)] ==
            IF n = 0 THEN <<>>
            ELSE IF n \in keep THEN Append(acc[n - 1], valid[n]) ELSE acc[n - 1]
    IN acc[Len(valid)]

RECURSIVE DedupeSources(_)
DedupeSources(chunks) ==
    IF chunks = <<>> THEN <<>>
    ELSE LET acc == DedupeSources(SubSeq(chunks, 1, Len(chunks) - 1))
             current == chunks[Len(chunks)]
         IN IF current.uri = NULL \/ current.title = NULL THEN acc
            ELSE IF \E i \in DOMAIN acc : acc[i].uri = current.uri THEN acc
            ELSE Append(acc, current)

\* A JSON value: an array with its items, or a value that is no array (an
\* object, null, a number, a string).
JsonArray(items) == [isArray |-> TRUE, items |-> items]
JsonObject == [isArray |-> FALSE, items |-> <<>>]

\* text.replace(/^```json|```$/g, '').trim(): a leading ```json and a
\* trailing ``` are taken away; of a fence opened with ``` alone the
\* opening stays, and what is left is not JSON.
StripFence(text) ==
    [isJson |-> text.isJson /\ text.fence # "plain", value |-> text.value]

\* JSON.parse of a text that is JSON: its value, of whatever type.
JsonParse(jsonString) == jsonString.value

\* The SDK call, the parse of the text and the sources are inside the try:
\* whatever is thrown there is wrapped.
findArtists(resp) ==
    IF resp.kind = "reject" THEN Err(ErrArtists)
    ELSE IF ~resp.text.present THEN Err(ErrArtists)
    ELSE LET jsonString == StripFence(resp.text)
         IN IF ~jsonString.isJson THEN Err(ErrArtists)
            ELSE Ok([artists |-> JsonParse(jsonString),
                     sources |-> DedupeSources(resp.groundingChunks)])

\* conversationHistory.map(m => ({role, parts: [{text}]})) and history.pop():
\* the messages but the last, with the sender as the SDK's role.
ArtistHistory(conversationHistory) ==
    [i \in 1..(Len(conversationHistory) - 1) |->
        [role |-> IF conversationHistory[i].sender = "user" THEN "user" ELSE "model",
         text |-> conversationHistory[i].text]]

\* The argument of ai.chats.create: the model and the system instruction.
\* The history that was built is not in it.
ChatCreateParams(conversationHistory, artist, model) ==
    [model |-> model, config |-> [systemInstruction |-> artist]]

\* The history a chat starts with: the one it is created with, or none.
ChatHistory(params) ==
    IF "history" \in DOMAIN params THEN params.history ELSE <<>>

generateArtistResponse(resp) ==
    IF resp.kind = "reject" THEN Err(ErrReply)
    ELSE IF resp.text = UNDEFINED THEN Err(ErrReply)
    ELSE Ok(resp.text)

\* fileToPart rejects (FileReader error, or a result that is no data URL)
\* before the SDK call: none of the callers catches it.
fileToPartRejected == Err(RawError)

(***************************************************************************)
(* What the hosted API may answer.                                         *)
(***************************************************************************)
Png(bytes) == [mimeType |-> "image/png", imageBytes |-> bytes]
Jpeg(bytes) == [mimeType |-> "image/jpeg", imageBytes |-> bytes]

GenerateAnswers ==
    {Reject,
     [kind |-> "rejectValue"],
     [kind |-> "ok", generatedImages |-> <<>>],
     [kind |-> "ok", generatedImages |-> <<Png("T1"), Png("T2")>>]}

ReferenceAnswers ==
    {Reject,
     [kind |-> "ok", generatedImages |-> <<>>],
     [kind |-> "ok", generatedImages |-> <<Jpeg("R1"), Jpeg("R2")>>]}

DescribeAnswers(image) ==
    {Reject,
     [kind |-> "ok", text |-> UNDEFINED],
     [kind |-> "ok", text |-> "style of " \o image]}

TextPart == [isImage |-> FALSE, mimeType |-> NULL, data |-> NULL]
ImagePart(bytes) == [isImage |-> TRUE, mimeType |-> "image/png", data |-> bytes]

ImageEditAnswers(bytes) ==
    {Reject,
     [kind |-> "ok", blockReason |-> "SAFETY", parts |-> <<ImagePart(bytes)>>, finishReason |-> NULL],
     [kind |-> "ok", blockReason |-> NULL, parts |-> <<TextPart, ImagePart(bytes)>>, finishReason |-> "STOP"]}

Web(uri, title) == [uri |-> uri, title |-> title]

\* response.text of the artist search: missing, text that JSON.parse
\* rejects, or the text of a JSON value, bare or inside a code fence.
FencedText(fence, isJson, value) ==
    [present |-> TRUE, fence |-> fence, isJson |-> isJson, value |-> value]
Text(present, isJson, value) ==
    [present |-> present, fence |-> "none", isJson |-> isJson, value |-> JsonArray(value)]

ArtistAnswers ==
    {Reject,
     [kind |-> "ok", text |-> Text(FALSE, FALSE, <<>>), groundingChunks |-> <<>>],
     [kind |-> "ok", text |-> Text(TRUE, FALSE, <<>>), groundingChunks |-> <<>>],
     [kind |-> "ok", text |-> Text(TRUE, TRUE, <<>>), groundingChunks |-> <<>>],
     [kind |-> "ok", text |-> Text(TRUE, TRUE, <<"a1">>),
      groundingChunks |-> <<Web("u1", "t1"), Web("u1", "t1b")>>],
     [kind |-> "ok", text |-> Text(TRUE, TRUE, <<"a2", "a1">>),
      groundingChunks |-> <<Web("u2", "t2"), Web("u3", NULL), Web("u1", "t1")>>]}

ReplyAnswers(message) ==
    {Reject,
     [kind |-> "ok", text |-> "re: " \o message]}

(***************************************************************************)
(* A service function called on its own, with every answer of the SDK up   *)
(* to a small size.                                                        *)
(***************************************************************************)
ServiceCall(fn, input) == [fn |-> fn, input |-> input]

\* Sequences over a set, of length 0..2 and 0..3.
SeqsUpTo2(S) == {<<>>} \cup {<<a>> : a \in S} \cup {<<a, b>> : a \in S, b \in S}
SeqsUpTo3(S) == SeqsUpTo2(S) \cup {<<a, b, c>> : a \in S, b \in S, c \in S}

\* GenerateContentResponse of an image edit: promptFeedback.blockReason,
\* the parts of the first candidate and its finishReason.
ResponseParts ==
    {TextPart, ImagePart("I1"), [isImage |-> TRUE, mimeType |-> "image/jpeg", data |-> "I2"]}
ImageEditResponses ==
    {[kind |-> "ok", blockReason |-> b, parts |-> ps, finishReason |-> f] :
        b \in {NULL, "SAFETY"}, ps \in SeqsUpTo2(ResponseParts),
        f \in {NULL, "STOP", "MAX_TOKENS"}}

\* Answers of generateImages: a rejection, or up to two images.
ImagesResponses ==
    {Reject, [kind |-> "rejectValue"]}
        \cup {[kind |-> "ok", generatedImages |-> imgs] :
                 imgs \in SeqsUpTo2({Png("T1"), Png("T2"), Jpeg("R1")})}

\* Answers of the artist search: every text with no sources, and every list
\* of up to three grounding chunks (a chunk without web, uri or title has
\* NULL there) with one text.
ArtistTexts ==
    {Text(FALSE, FALSE, <<>>), Text(TRUE, FALSE, <<>>)}
        \cup {FencedText(f, TRUE, v) :
                 f \in {"none", "json", "plain"},
                 v \in {JsonArray(<<>>), JsonArray(<<"a2", "a1">>), JsonObject}}
WebEntries == {Web(u, t) : u \in {"u1", "u2", NULL}, t \in {"t1", "t2", NULL}}
ArtistResponses ==
    {Reject}
        \cup {[kind |-> "ok", text |-> t, groundingChunks |-> <<>>] : t \in ArtistTexts}
        \cup {[kind |-> "ok", text |-> Text(TRUE, TRUE, <<"a1">>), groundingChunks |-> cs] :
                 cs \in SeqsUpTo3(WebEntries)}

\* Calls of generateArtistResponse: a conversation of up to three messages
\* and the answer to the message sent.
HistoryMessages ==
    {[sender |-> "user", text |-> "hi"], [sender |-> "artist", text |-> "re: hi"]}
ArtistResponseCalls ==
    {[conversationHistory |-> h, artist |-> "a1", userMessage |-> "hi",
      model |-> "gemini-2.5-flash", resp |-> r] :
        h \in SeqsUpTo3(HistoryMessages),
        r \in ReplyAnswers("hi") \cup {[kind |-> "ok", text |-> UNDEFINED]}}

ServiceCalls ==
    {ServiceCall("handleImageEditApiResponse", r) : r \in ImageEditResponses}
        \cup {ServiceCall("generateTattooDesign", r) : r \in ImagesResponses}
        \cup {ServiceCall("searchReferenceImages", r) : r \in ImagesResponses}
        \cup {ServiceCall("findArtists", r) : r \in ArtistResponses}
        \cup {ServiceCall("generateArtistResponse", c) : c \in ArtistResponseCalls}

InitService ==
    /\ AppInit
    /\ svcCall \in ServiceCalls
    /\ svcResult = <<>>

\* The call returns or throws.
Returns(result) ==
    /\ svcResult = <<>>
    /\ svcResult' = <<result>>
    /\ UNCHANGED <<wizardVars, refVars, artistVars, projVars, storeVars, netVars, now, svcCall>>

CallHandleImageEditApiResponse ==
    /\ svcCall.fn = "handleImageEditApiResponse"
    /\ Returns(handleImageEditApiResponse(svcCall.input))

CallGenerateTattooDesign ==
    /\ svcCall.fn = "generateTattooDesign"
    /\ Returns(generateTattooDesign(svcCall.input))

CallSearchReferenceImages ==
    /\ svcCall.fn = "searchReferenceImages"
    /\ Returns(searchReferenceImages(svcCall.input))

CallFindArtists ==
    /\ svcCall.fn = "findArtists"
    /\ Returns(findArtists(svcCall.input))

\* The chat is created, the message sent, and the reply returned.
CallGenerateArtistResponse ==
    /\ svcCall.fn = "generateArtistResponse"
    /\ LET c == svcCall.input
           params == ChatCreateParams(c.conversationHistory, c.artist, c.model)
       IN Returns([chatHistory |-> ChatHistory(params),
                   message |-> c.userMessage,
                   out |-> generateArtistResponse(c.resp)])

(***************************************************************************)
(* Event handlers of App.  A handler is enabled when the element it hangs  *)
(* on is rendered: the loading and error overlays are drawn over the page  *)
(* but remove and disable nothing, and key presses in a focused input     *)
(* still reach its handler.                                                *)
(***************************************************************************)

\* Date.now(): a reading is never before the last one, and two readings
\* can be the same millisecond.  now is the last reading.
ClockReadings == {t \in {now, now + 1} : t <= MaxClock}

\* handleReset as it would be if a reset also dropped the requests in flight.
handleResetCancelling ==
    /\ appStep' = "START"
    /\ prompt' = ""
    /\ generatedTattoos' = <<>>
    /\ selectedTattoo' = NULL
    /\ tryOnImage' = NULL
    /\ finalImage' = NULL
    /\ artists' = <<>>
    /\ searchedForArtists' = FALSE
    /\ inflight' = <<>>
    /\ mut' = [t \in MutationTypes |-> Idle]
    /\ UNCHANGED <<artistSearchSources, artistSpecialtyFilter, artistAvailabilityFilter,
                   artistSort, allSpecialties, bookingArtist, locationSearch, mapCenter,
                   selectedArtistId>>
    /\ UNCHANGED <<refVars, projVars, storeVars, now>>
    /\ UNCHANGED svcVars

\* Header: click on the logo.
handleReset ==
    /\ appStep' = "START"
    /\ prompt' = ""
    /\ generatedTattoos' = <<>>
    /\ selectedTattoo' = NULL
    /\ tryOnImage' = NULL
    /\ finalImage' = NULL
    /\ artists' = <<>>
    /\ searchedForArtists' = FALSE
    /\ UNCHANGED <<artistSearchSources, artistSpecialtyFilter, artistAvailabilityFilter,
                   artistSort, allSpecialties, bookingArtist, locationSearch, mapCenter,
                   selectedArtistId>>
    /\ UNCHANGED <<refVars, projVars, storeVars, netVars, now>>
    /\ UNCHANGED svcVars

\* Header: My Gallery.
onShowGallery ==
    /\ appStep' = "GALLERY"
    /\ UNCHANGED <<prompt, generatedTattoos, selectedTattoo, tryOnImage, finalImage>>
    /\ UNCHANGED <<refVars, artistVars, projVars, storeVars, netVars, now>>
    /\ UNCHANGED svcVars

\* StartScreen: Start Designing.
onStart ==
    /\ appStep = "START"
    /\ appStep' = "DESIGN"
    /\ UNCHANGED <<prompt, generatedTattoos, selectedTattoo, tryOnImage, finalImage>>
    /\ UNCHANGED <<refVars, artistVars, projVars, storeVars, netVars, now>>
    /\ UNCHANGED svcVars

\* handleFindArtists as it would be if it took the selected tattoo before
\* the final image.
FindArtistsRequestSelectedFirst(fromStartScreen) ==
    LET imageFile ==
            IF ~fromStartScreen /\ selectedTattoo # NULL THEN selectedTattoo
            ELSE IF ~fromStartScreen /\ finalImage # NULL THEN finalImage
            ELSE NULL
    IN /\ searchedForArtists' = FALSE
       /\ Mutate("findArtists", imageFile)

\* handleFindArtists(fromStartScreen), without the step change of its callers.
\* image is the design the closure of the render holds.
FindArtistsRequest(fromStartScreen) ==
    LET imageFile ==
            IF ~fromStartScreen /\ finalImage # NULL THEN finalImage
            ELSE IF ~fromStartScreen /\ selectedTattoo # NULL THEN selectedTattoo
            ELSE NULL
    IN /\ searchedForArtists' = FALSE
       /\ Mutate("findArtists", imageFile)

\* StartScreen: Find an Artist.
onStartFindArtist ==
    /\ appStep = "START"
    /\ finalImage' = NULL
    /\ selectedTattoo' = NULL
    /\ FindArtistsRequest(TRUE)
    /\ appStep' = "FIND_ARTIST"
    /\ UNCHANGED <<prompt, generatedTattoos, tryOnImage>>
    /\ UNCHANGED <<artists, artistSearchSources, artistSpecialtyFilter,
                   artistAvailabilityFilter, artistSort, allSpecialties, bookingArtist,
                   locationSearch, mapCenter, selectedArtistId>>
    /\ UNCHANGED <<refVars, projVars, storeVars, now>>
    /\ UNCHANGED svcVars

\* DESIGN: the reference search input.
setReferenceSearchQuery(q) ==
    /\ appStep = "DESIGN"
    /\ referenceSearchQuery # q
    /\ referenceSearchQuery' = q
    /\ UNCHANGED <<referenceImages, selectedReferenceImage, styleDescription>>
    /\ UNCHANGED <<wizardVars, artistVars, projVars, storeVars, netVars, now>>
    /\ UNCHANGED svcVars

\* DESIGN: Search button, or Enter in the reference search input.
handleSearchReference ==
    /\ appStep = "DESIGN"
    /\ referenceSearchQuery # ""
    /\ Mutate("searchReference", referenceSearchQuery)
    /\ UNCHANGED <<wizardVars, refVars, artistVars, projVars, storeVars, now>>
    /\ UNCHANGED svcVars

\* DESIGN: click on a reference image.
handleSelectReferenceImage(image) ==
    /\ appStep = "DESIGN"
    /\ image \in Range(referenceImages)
    /\ IF selectedReferenceImage = image
       THEN /\ selectedReferenceImage' = NULL
            /\ styleDescription' = ""
            /\ UNCHANGED netVars
       ELSE /\ selectedReferenceImage' = image
            /\ Mutate("describeStyle", image)
            /\ UNCHANGED styleDescription
    /\ UNCHANGED <<referenceSearchQuery, referenceImages>>
    /\ UNCHANGED <<wizardVars, artistVars, projVars, storeVars, now>>
    /\ UNCHANGED svcVars

\* DESIGN: the prompt textarea.
setPrompt(p) ==
    /\ appStep = "DESIGN"
    /\ prompt # p
    /\ prompt' = p
    /\ UNCHANGED <<appStep, generatedTattoos, selectedTattoo, tryOnImage, finalImage>>
    /\ UNCHANGED <<refVars, artistVars, projVars, storeVars, netVars, now>>
    /\ UNCHANGED svcVars

\* DESIGN: Generate Designs.
handleGenerateTattoo ==
    /\ appStep = "DESIGN"
    /\ prompt # ""
    /\ Mutate("generateTattoo", prompt)
    /\ UNCHANGED <<wizardVars, refVars, artistVars, projVars, storeVars, now>>
    /\ UNCHANGED svcVars

\* handleSelectTattoo as it would be if it set the step alone.
handleSelectTattooUnset(tattoo) ==
    /\ appStep = "DESIGN"
    /\ tattoo \in Range(generatedTattoos)
    /\ appStep' = "TRY_ON"
    /\ UNCHANGED <<prompt, generatedTattoos, selectedTattoo, tryOnImage, finalImage>>
    /\ UNCHANGED <<refVars, artistVars, projVars, storeVars, netVars, now>>
    /\ UNCHANGED svcVars

\* handleSelectTattoo as it would be if it named the wrong step.
handleSelectTattooSkip(tattoo) ==
    /\ appStep = "DESIGN"
    /\ tattoo \in Range(generatedTattoos)
    /\ selectedTattoo' = tattoo
    /\ appStep' = "FIND_ARTIST"
    /\ UNCHANGED <<prompt, generatedTattoos, tryOnImage, finalImage>>
    /\ UNCHANGED <<refVars, artistVars, projVars, storeVars, netVars, now>>
    /\ UNCHANGED svcVars

\* DESIGN: click on a generated design.
handleSelectTattoo(tattoo) ==
    /\ appStep = "DESIGN"
    /\ tattoo \in Range(generatedTattoos)
    /\ selectedTattoo' = tattoo
    /\ appStep' = "TRY_ON"
    /\ UNCHANGED <<prompt, generatedTattoos, tryOnImage, finalImage>>
    /\ UNCHANGED <<refVars, artistVars, projVars, storeVars, netVars, now>>
    /\ UNCHANGED svcVars

\* TRY_ON: the photo chosen in the file input, read as a data URL.
handleTryOnImageUpload ==
    /\ appStep = "TRY_ON"
    /\ selectedTattoo # NULL
    /\ tryOnImage = NULL
    /\ tryOnImage' = DataUri("image/jpeg", "PHOTO")
    /\ UNCHANGED <<appStep, prompt, generatedTattoos, selectedTattoo, finalImage>>
    /\ UNCHANGED <<refVars, artistVars, projVars, storeVars, netVars, now>>
    /\ UNCHANGED svcVars

\* TRY_ON: Blend Tattoo.  The stage is mounted once a photo is there; the
\* file sent is the stage drawn as a PNG.
handleBlendTattoo ==
    /\ appStep = "TRY_ON"
    /\ selectedTattoo # NULL
    /\ tryOnImage # NULL
    /\ Mutate("blendTattoo", DataUri("image/png", "STAGE"))
    /\ UNCHANGED <<wizardVars, refVars, artistVars, projVars, storeVars, now>>
    /\ UNCHANGED svcVars

\* DONE: Find an Artist.
onFindArtistFromDone ==
    /\ appStep = "DONE"
    /\ finalImage # NULL
    /\ appStep' = "FIND_ARTIST"
    /\ FindArtistsRequest(FALSE)
    /\ UNCHANGED <<prompt, generatedTattoos, selectedTattoo, tryOnImage, finalImage>>
    /\ UNCHANGED <<artists, artistSearchSources, artistSpecialtyFilter,
                   artistAvailabilityFilter, artistSort, allSpecialties, bookingArtist,
                   locationSearch, mapCenter, selectedArtistId>>
    /\ UNCHANGED <<refVars, projVars, storeVars, now>>
    /\ UNCHANGED svcVars

\* handleSaveProject as it would be if the new project were put first.
handleSaveProjectPrepend(artist, design, clock) ==
    LET newProject == NewProject(artist, design, clock)
        updatedProjects == <<newProject>> \o projects
    IN /\ Len(projects) < MaxProjects
       /\ now' = clock
       /\ projects' = updatedProjects
       /\ storage' = SetItem(storage, updatedProjects, storageWorks)
       /\ lastWrite' = IF storageWorks THEN "ok" ELSE "failed"
       /\ UNCHANGED storageWorks

\* handleSaveProject(artist, design).  A setItem that throws does so after
\* setProjects has been called.
handleSaveProject(artist, design, clock) ==
    LET newProject == NewProject(artist, design, clock)
        updatedProjects == Append(projects, newProject)
    IN /\ Len(projects) < MaxProjects
       /\ now' = clock
       /\ projects' = updatedProjects
       /\ storage' = SetItem(storage, updatedProjects, storageWorks)
       /\ lastWrite' = IF storageWorks THEN "ok" ELSE "failed"
       /\ UNCHANGED storageWorks

\* DONE: Save Design.
onSaveDesign ==
    /\ appStep = "DONE"
    /\ finalImage # NULL
    /\ \E clock \in ClockReadings : handleSaveProject(Unassigned, finalImage, clock)
    /\ UNCHANGED <<wizardVars, refVars, artistVars, viewingProject, netVars>>
    /\ UNCHANGED svcVars

\* DONE: Start Over.
onStartOver ==
    /\ appStep = "DONE"
    /\ finalImage # NULL
    /\ handleReset

(***************************************************************************)
(* FIND_ARTIST.                                                            *)
(***************************************************************************)

\* The artists listed: sorted (style matches first, otherwise in order),
\* then filtered by specialty and availability.
filteredArtists ==
    LET sorted ==
            IF artistSort = "styleMatch"
            THEN SelectSeq(artists, LAMBDA a : ArtistStyleMatch(a))
                 \o SelectSeq(artists, LAMBDA a : ~ArtistStyleMatch(a))
            ELSE artists
        specialtyMatch(a) ==
            \/ artistSpecialtyFilter = <<>>
            \/ Range(ArtistSpecialties(a)) \cap Range(artistSpecialtyFilter) # {}
        availabilityMatch(a) ==
            artistAvailabilityFilter = "all" \/ ArtistAccepting(a)
    IN SelectSeq(sorted, LAMBDA a : specialtyMatch(a) /\ availabilityMatch(a))

\* `${artist.name}-${idx}`
ArtistKey(a, idx) == a \o "-" \o ToString(idx - 1)

setLocationSearch(l) ==
    /\ appStep = "FIND_ARTIST"
    /\ locationSearch # l
    /\ locationSearch' = l
    /\ UNCHANGED <<artists, artistSearchSources, artistSpecialtyFilter,
                   artistAvailabilityFilter, artistSort, allSpecialties, bookingArtist,
                   mapCenter, selectedArtistId, searchedForArtists>>
    /\ UNCHANGED <<wizardVars, refVars, projVars, storeVars, netVars, now>>
    /\ UNCHANGED svcVars

\* Search button, or Enter in the location input.
onSearchArtists ==
    /\ appStep = "FIND_ARTIST"
    /\ FindArtistsRequest(FALSE)
    /\ UNCHANGED <<artists, artistSearchSources, artistSpecialtyFilter,
                   artistAvailabilityFilter, artistSort, allSpecialties, bookingArtist,
                   locationSearch, mapCenter, selectedArtistId>>
    /\ UNCHANGED <<wizardVars, refVars, projVars, storeVars, now>>
    /\ UNCHANGED svcVars

setArtistSort(v) ==
    /\ appStep = "FIND_ARTIST"
    /\ artistSort # v
    /\ artistSort' = v
    /\ UNCHANGED <<artists, artistSearchSources, artistSpecialtyFilter,
                   artistAvailabilityFilter, allSpecialties, bookingArtist,
                   locationSearch, mapCenter, selectedArtistId, searchedForArtists>>
    /\ UNCHANGED <<wizardVars, refVars, projVars, storeVars, netVars, now>>
    /\ UNCHANGED svcVars

setArtistAvailabilityFilter(v) ==
    /\ appStep = "FIND_ARTIST"
    /\ artistAvailabilityFilter # v
    /\ artistAvailabilityFilter' = v
    /\ UNCHANGED <<artists, artistSearchSources, artistSpecialtyFilter,
                   artistSort, allSpecialties, bookingArtist,
                   locationSearch, mapCenter, selectedArtistId, searchedForArtists>>
    /\ UNCHANGED <<wizardVars, refVars, projVars, storeVars, netVars, now>>
    /\ UNCHANGED svcVars

\* A specialty button: prev.includes(spec) ? prev.filter(s => s !== spec) : [...prev, spec]
onToggleSpecialty(spec) ==
    /\ appStep = "FIND_ARTIST"
    /\ spec \in Range(allSpecialties)
    /\ artistSpecialtyFilter' =
          IF spec \in Range(artistSpecialtyFilter)
          THEN SelectSeq(artistSpecialtyFilter, LAMBDA x : x # spec)
          ELSE Append(artistSpecialtyFilter, spec)
    /\ UNCHANGED <<artists, artistSearchSources, artistAvailabilityFilter,
                   artistSort, allSpecialties, bookingArtist,
                   locationSearch, mapCenter, selectedArtistId, searchedForArtists>>
    /\ UNCHANGED <<wizardVars, refVars, projVars, storeVars, netVars, now>>
    /\ UNCHANGED svcVars

\* Click on the map marker of a listed artist that has coordinates.
onMarkerClick(idx) ==
    /\ appStep = "FIND_ARTIST"
    /\ idx \in DOMAIN filteredArtists
    /\ ArtistHasCoords(filteredArtists[idx])
    /\ selectedArtistId # ArtistKey(filteredArtists[idx], idx)
    /\ selectedArtistId' = ArtistKey(filteredArtists[idx], idx)
    /\ UNCHANGED <<artists, artistSearchSources, artistSpecialtyFilter,
                   artistAvailabilityFilter, artistSort, allSpecialties, bookingArtist,
                   locationSearch, mapCenter, searchedForArtists>>
    /\ UNCHANGED <<wizardVars, refVars, projVars, storeVars, netVars, now>>
    /\ UNCHANGED svcVars

\* Click on an artist card (the cards give way to a spinner while a search
\* is pending).
onSelectArtist(idx) ==
    /\ appStep = "FIND_ARTIST"
    /\ mut["findArtists"].status # "pending"
    /\ idx \in DOMAIN filteredArtists
    /\ mapCenter' = IF ArtistHasCoords(filteredArtists[idx]) THEN filteredArtists[idx]
                    ELSE mapCenter
    /\ selectedArtistId' = ArtistKey(filteredArtists[idx], idx)
    /\ mapCenter' # mapCenter \/ selectedArtistId' # selectedArtistId
    /\ UNCHANGED <<artists, artistSearchSources, artistSpecialtyFilter,
                   artistAvailabilityFilter, artistSort, allSpecialties, bookingArtist,
                   locationSearch, searchedForArtists>>
    /\ UNCHANGED <<wizardVars, refVars, projVars, storeVars, netVars, now>>
    /\ UNCHANGED svcVars

\* Contact Artist on a card.
onContact(idx) ==
    /\ appStep = "FIND_ARTIST"
    /\ mut["findArtists"].status # "pending"
    /\ idx \in DOMAIN filteredArtists
    /\ bookingArtist # filteredArtists[idx]
    /\ bookingArtist' = filteredArtists[idx]
    /\ UNCHANGED <<artists, artistSearchSources, artistSpecialtyFilter,
                   artistAvailabilityFilter, artistSort, allSpecialties,
                   locationSearch, mapCenter, selectedArtistId, searchedForArtists>>
    /\ UNCHANGED <<wizardVars, refVars, projVars, storeVars, netVars, now>>
    /\ UNCHANGED svcVars

(***************************************************************************)
(* The booking modal (shown in any step while bookingArtist is set).       *)
(***************************************************************************)
onCloseBooking ==
    /\ bookingArtist # NULL
    /\ bookingArtist' = NULL
    /\ UNCHANGED <<artists, artistSearchSources, artistSpecialtyFilter,
                   artistAvailabilityFilter, artistSort, allSpecialties,
                   locationSearch, mapCenter, selectedArtistId, searchedForArtists>>
    /\ UNCHANGED <<wizardVars, refVars, projVars, storeVars, netVars, now>>
    /\ UNCHANGED svcVars

\* Send Consultation Request: handleSaveProject(bookingArtist, finalImage ||
\* selectedTattoo!), then setBookingArtist(null), which a throwing setItem
\* skips.
onSendConsultationRequest ==
    /\ bookingArtist # NULL
    /\ \E clock \in ClockReadings :
          handleSaveProject(bookingArtist,
                            IF finalImage # NULL THEN finalImage ELSE selectedTattoo, clock)
    /\ bookingArtist' = IF storageWorks THEN NULL ELSE bookingArtist
    /\ UNCHANGED <<artists, artistSearchSources, artistSpecialtyFilter,
                   artistAvailabilityFilter, artistSort, allSpecialties,
                   locationSearch, mapCenter, selectedArtistId, searchedForArtists>>
    /\ UNCHANGED <<wizardVars, refVars, viewingProject, netVars>>
    /\ UNCHANGED svcVars

(***************************************************************************)
(* GALLERY and the project modal (shown in any step while viewingProject   *)
(* is set).                                                                *)
(***************************************************************************)

\* Click on a project card.
onViewProject(i) ==
    /\ appStep = "GALLERY"
    /\ i \in DOMAIN projects
    /\ viewingProject # <<projects[i]>>
    /\ viewingProject' = <<projects[i]>>
    /\ UNCHANGED <<projects, wizardVars, refVars, artistVars, storeVars, netVars, now>>
    /\ UNCHANGED svcVars

onCloseProject ==
    /\ viewingProject # <<>>
    /\ viewingProject' = <<>>
    /\ UNCHANGED <<projects, wizardVars, refVars, artistVars, storeVars, netVars, now>>
    /\ UNCHANGED svcVars

\* updateProject(projectId, updates), called from a render whose projects
\* is closureProjects.  A setItem that throws is caught and logged.
updateProject(closureProjects, projectId, field, value) ==
    LET updatedProjects == ApplyUpdates(closureProjects, projectId, field, value)
    IN /\ projects' = updatedProjects
       /\ viewingProject' =
             IF viewingProject # <<>>
             THEN <<[viewingProject[1] EXCEPT ![field] = value]>>
             ELSE <<>>
       /\ storage' = SetItem(storage, updatedProjects, storageWorks)
       /\ lastWrite' = IF storageWorks THEN "ok" ELSE "failed"
       /\ UNCHANGED storageWorks

\* Generate Stencil, shown while the project viewed has no stencil.
\* dataURLtoFile throws on a project saved without a design image.
onGenerateStencil ==
    /\ viewingProject # <<>>
    /\ viewingProject[1].stencilImage \in {UNDEFINED, NULL, ""}
    /\ viewingProject[1].designImage # NULL
    /\ Mutate("generateStencil", viewingProject[1].designImage)
    /\ UNCHANGED <<wizardVars, refVars, artistVars, projVars, storeVars, now>>
    /\ UNCHANGED svcVars

\* Delete Project, confirmed.  A throwing setItem skips setViewingProject(null).
onDeleteProject ==
    /\ viewingProject # <<>>
    /\ LET updatedProjects == WithoutId(projects, viewingProject[1].id)
       IN /\ projects' = updatedProjects
          /\ storage' = SetItem(storage, updatedProjects, storageWorks)
          /\ lastWrite' = IF storageWorks THEN "ok" ELSE "failed"
          /\ viewingProject' = IF storageWorks THEN <<>> ELSE viewingProject
          /\ UNCHANGED storageWorks
    /\ UNCHANGED <<wizardVars, refVars, artistVars, netVars, now>>
    /\ UNCHANGED svcVars

\* Enter in the chat input with a text that is not blank.
onChatEnter(text) ==
    /\ viewingProject # <<>>
    /\ Len(viewingProject[1].conversation) < MaxConversation
    /\ LET userMessage == [sender |-> "user", text |-> text]
           newConversation == Append(viewingProject[1].conversation, userMessage)
       IN /\ updateProject(projects, viewingProject[1].id, "conversation", newConversation)
          /\ Mutate("artistResponse", text)
    /\ UNCHANGED <<wizardVars, refVars, artistVars, now>>
    /\ UNCHANGED svcVars

(***************************************************************************)
(* Steps of a request.                                                     *)
(***************************************************************************)

\* The request leaves, and the observer that still follows it shows the end.
Settle(i, state) ==
    /\ inflight' = RemoveAt(inflight, i)
    /\ mut' = IF inflight[i].cur THEN [mut EXCEPT ![inflight[i].type] = state] ELSE mut

\* A failed call: retried while failures stay under the retry count, else
\* the mutation ends in error.  No handler of App runs.
Fail(i, e) ==
    /\ IF inflight[i].calls <= RetryCount
       THEN /\ inflight' = [inflight EXCEPT ![i].calls = @ + 1]
            /\ UNCHANGED mut
       ELSE Settle(i, Failed(e))
    /\ UNCHANGED <<wizardVars, refVars, artistVars, projVars, storeVars, now>>

\* fileToPart resolved: the service function makes its SDK call.
ApiCall(i) ==
    /\ i \in DOMAIN inflight
    /\ inflight[i].calls = 0
    /\ inflight' = [inflight EXCEPT ![i].calls = 1]
    /\ UNCHANGED <<mut, wizardVars, refVars, artistVars, projVars, storeVars, now>>
    /\ UNCHANGED svcVars

\* fileToPart rejected: the service function throws before any SDK call.
ConvertFail(i) ==
    /\ i \in DOMAIN inflight
    /\ inflight[i].calls = 0
    /\ Settle(i, Failed(fileToPartRejected.error))
    /\ UNCHANGED <<wizardVars, refVars, artistVars, projVars, storeVars, now>>
    /\ UNCHANGED svcVars

Called(i, type) ==
    /\ i \in DOMAIN inflight
    /\ inflight[i].type = type
    /\ inflight[i].calls >= 1

\* generateTattooMutation: onSuccess: (data) => setGeneratedTattoos(data)
CompleteGenerateTattoo(i) ==
    /\ Called(i, "generateTattoo")
    /\ \E resp \in GenerateAnswers :
          LET res == generateTattooDesign(resp)
          IN IF res.ok
             THEN /\ generatedTattoos' = res.data
                  /\ Settle(i, Success)
                  /\ UNCHANGED <<appStep, prompt, selectedTattoo, tryOnImage, finalImage>>
                  /\ UNCHANGED <<refVars, artistVars, projVars, storeVars, now>>
             ELSE Fail(i, res.error)
    /\ UNCHANGED svcVars

\* blendTattooMutation: onSuccess: (data) => { setFinalImage(data); setAppStep('DONE'); }
CompleteBlendTattoo(i) ==
    /\ Called(i, "blendTattoo")
    /\ \E resp \in ImageEditAnswers("blend of " \o inflight[i].arg) :
          LET res == blendVirtualTattoo(resp)
          IN IF res.ok
             THEN /\ finalImage' = res.data
                  /\ appStep' = "DONE"
                  /\ Settle(i, Success)
                  /\ UNCHANGED <<prompt, generatedTattoos, selectedTattoo, tryOnImage>>
                  /\ UNCHANGED <<refVars, artistVars, projVars, storeVars, now>>
             ELSE Fail(i, res.error)
    /\ UNCHANGED svcVars

\* findArtistsMutation onSuccess
CompleteFindArtists(i) ==
    /\ Called(i, "findArtists")
    /\ \E resp \in ArtistAnswers :
          LET res == findArtists(resp)
          IN IF res.ok
             THEN /\ artists' = res.data.artists.items
                  /\ artistSearchSources' = res.data.sources
                  /\ allSpecialties' = Unique(FlatMapSpecialties(res.data.artists.items))
                  /\ mapCenter' =
                        IF Len(res.data.artists.items) > 0
                              /\ ArtistHasCoords(res.data.artists.items[1])
                        THEN res.data.artists.items[1]
                        ELSE NULL
                  /\ searchedForArtists' = TRUE
                  /\ Settle(i, Success)
                  /\ UNCHANGED <<artistSpecialtyFilter, artistAvailabilityFilter, artistSort,
                                 bookingArtist, locationSearch, selectedArtistId>>
                  /\ UNCHANGED <<wizardVars, refVars, projVars, storeVars, now>>
             ELSE Fail(i, res.error)
    /\ UNCHANGED svcVars

\* searchReferenceMutation: onSuccess: (data) => setReferenceImages(data)
CompleteSearchReference(i) ==
    /\ Called(i, "searchReference")
    /\ \E resp \in ReferenceAnswers :
          LET res == searchReferenceImages(resp)
          IN IF res.ok
             THEN /\ referenceImages' = res.data
                  /\ Settle(i, Success)
                  /\ UNCHANGED <<referenceSearchQuery, selectedReferenceImage, styleDescription>>
                  /\ UNCHANGED <<wizardVars, artistVars, projVars, storeVars, now>>
             ELSE Fail(i, res.error)
    /\ UNCHANGED svcVars

\* describeStyleMutation: onSuccess: (data) => setStyleDescription(data)
CompleteDescribeStyle(i) ==
    /\ Called(i, "describeStyle")
    /\ \E resp \in DescribeAnswers(inflight[i].arg) :
          LET res == describeImageStyle(resp)
          IN IF res.ok
             THEN /\ styleDescription' = res.data
                  /\ Settle(i, Success)
                  /\ UNCHANGED <<referenceSearchQuery, referenceImages, selectedReferenceImage>>
                  /\ UNCHANGED <<wizardVars, artistVars, projVars, storeVars, now>>
             ELSE Fail(i, res.error)
    /\ UNCHANGED svcVars

\* The projects and viewingProject that the onSuccess closure of a request
\* holds: those of the current render for the request the observer follows,
\* those of the render before the take-over for an earlier one.
ClosureProjects(r) == IF r.cur THEN projects ELSE r.snapP
ClosureViewing(r) == IF r.cur THEN viewingProject ELSE r.snapV

\* generateStencilMutation onSuccess:
\*   if (viewingProject) updateProject(viewingProject.id, { stencilImage: data })
CompleteGenerateStencil(i) ==
    /\ Called(i, "generateStencil")
    /\ \E resp \in ImageEditAnswers("stencil of " \o inflight[i].arg) :
          LET res == generateTattooStencil(resp)
              closure == ClosureViewing(inflight[i])
          IN IF res.ok
             THEN /\ IF closure # <<>>
                     THEN updateProject(ClosureProjects(inflight[i]), closure[1].id,
                                        "stencilImage", res.data)
                     ELSE UNCHANGED <<projVars, storeVars>>
                  /\ Settle(i, Success)
                  /\ UNCHANGED <<wizardVars, refVars, artistVars, now>>
             ELSE Fail(i, res.error)
    /\ UNCHANGED svcVars

\* artistResponseMutation onSuccess: the reply is appended to the
\* conversation of the closure's viewingProject.
CompleteArtistResponse(i) ==
    /\ Called(i, "artistResponse")
    /\ \E resp \in ReplyAnswers(inflight[i].arg) :
          LET res == generateArtistResponse(resp)
              closure == ClosureViewing(inflight[i])
          IN IF res.ok
             THEN /\ IF closure # <<>>
                     THEN LET newArtistMessage ==
                                  [sender |-> "artist", text |-> res.data]
                              newConversation ==
                                  Append(closure[1].conversation, newArtistMessage)
                          IN updateProject(ClosureProjects(inflight[i]), closure[1].id,
                                           "conversation", newConversation)
                     ELSE UNCHANGED <<projVars, storeVars>>
                  /\ Settle(i, Success)
                  /\ UNCHANGED <<wizardVars, refVars, artistVars, now>>
             ELSE Fail(i, res.error)
    /\ UNCHANGED svcVars

(***************************************************************************)
(* window.location.reload(), from the error panel or the browser: the      *)
(* component and the query client start again, requests in flight are      *)
(* dropped with the page, the stored value and the clock stay.             *)
(***************************************************************************)
Reload ==
    /\ appStep' = "START"
    /\ prompt' = ""
    /\ generatedTattoos' = <<>>
    /\ selectedTattoo' = NULL
    /\ tryOnImage' = NULL
    /\ finalImage' = NULL
    /\ referenceSearchQuery' = ""
    /\ referenceImages' = <<>>
    /\ selectedReferenceImage' = NULL
    /\ styleDescription' = ""
    /\ artists' = <<>>
    /\ artistSearchSources' = <<>>
    /\ artistSpecialtyFilter' = <<>>
    /\ artistAvailabilityFilter' = "all"
    /\ artistSort' = "default"
    /\ allSpecialties' = <<>>
    /\ bookingArtist' = NULL
    /\ locationSearch' = "New York City"
    /\ mapCenter' = NULL
    /\ selectedArtistId' = NULL
    /\ searchedForArtists' = FALSE
    /\ viewingProject' = <<>>
    /\ mut' = [t \in MutationTypes |-> Idle]
    /\ inflight' = <<>>
    /\ projects' = LoadProjects(storage)
    /\ lastWrite' = "none"
    /\ UNCHANGED <<storage, storageWorks, now>>
    /\ UNCHANGED svcVars

(***************************************************************************)
(* The browser's storage starts or stops taking writes (quota reached or   *)
(* freed, storage switched off or on).                                     *)
(***************************************************************************)
StorageFlips ==
    /\ storageWorks' = ~storageWorks
    /\ UNCHANGED <<storage, lastWrite>>
    /\ UNCHANGED <<wizardVars, refVars, artistVars, projVars, netVars, now>>
    /\ UNCHANGED svcVars

(***************************************************************************)
(* Inputs.                                                                 *)
(***************************************************************************)
Prompts == {"", "a lion"}
ReferenceQueries == {"", "geometric"}
Locations == {"New York City", "Austin"}
ChatTexts == {"hi"}

UserAction ==
    \/ handleReset
    \/ onShowGallery
    \/ onStart
    \/ onStartFindArtist
    \/ \E q \in ReferenceQueries : setReferenceSearchQuery(q)
    \/ handleSearchReference
    \/ \E image \in Range(referenceImages) : handleSelectReferenceImage(image)
    \/ \E p \in Prompts : setPrompt(p)
    \/ handleGenerateTattoo
    \/ \E tattoo \in Range(generatedTattoos) : handleSelectTattoo(tattoo)
    \/ handleTryOnImageUpload
    \/ handleBlendTattoo
    \/ onFindArtistFromDone
    \/ onSaveDesign
    \/ onStartOver
    \/ \E l \in Locations : setLocationSearch(l)
    \/ onSearchArtists
    \/ \E v \in {"default", "styleMatch"} : setArtistSort(v)
    \/ \E v \in {"all", "accepting"} : setArtistAvailabilityFilter(v)
    \/ \E spec \in Range(allSpecialties) : onToggleSpecialty(spec)
    \/ \E idx \in DOMAIN filteredArtists : onMarkerClick(idx)
    \/ \E idx \in DOMAIN filteredArtists : onSelectArtist(idx)
    \/ \E idx \in DOMAIN filteredArtists : onContact(idx)
    \/ onCloseBooking
    \/ onSendConsultationRequest
    \/ \E i \in DOMAIN projects : onViewProject(i)
    \/ onCloseProject
    \/ onGenerateStencil
    \/ onDeleteProject
    \/ \E text \in ChatTexts : onChatEnter(text)

RequestStep ==
    \E i \in DOMAIN inflight :
        \/ ApiCall(i)
        \/ ConvertFail(i)
        \/ CompleteGenerateTattoo(i)
        \/ CompleteBlendTattoo(i)
        \/ CompleteFindArtists(i)
        \/ CompleteSearchReference(i)
        \/ CompleteDescribeStyle(i)
        \/ CompleteGenerateStencil(i)
        \/ CompleteArtistResponse(i)

Next == UserAction \/ RequestStep \/ Reload \/ StorageFlips

Spec == Init /\ [][Next]_vars

(***************************************************************************)
(* Specifications over parts of App.  Each one starts from Init and takes  *)
(* the handlers of one part of the page together with the request steps    *)
(* and the environment steps that part can meet.                           *)
(***************************************************************************)

\* The gallery and the project modal of a visitor: view, close, chat,
\* stencil, delete, with writes that can fail and page reloads.
NextGallery ==
    \/ onShowGallery
    \/ \E i \in DOMAIN projects : onViewProject(i)
    \/ onCloseProject
    \/ onGenerateStencil
    \/ onDeleteProject
    \/ \E text \in ChatTexts : onChatEnter(text)
    \/ \E i \in DOMAIN inflight :
        \/ ApiCall(i)
        \/ ConvertFail(i)
        \/ CompleteGenerateStencil(i)
        \/ CompleteArtistResponse(i)
    \/ Reload
    \/ StorageFlips

SpecGallery == Init /\ [][NextGallery]_vars

\* The wizard up to DONE and the two buttons that save a project.
NextSave ==
    \/ onStart
    \/ \E p \in Prompts : setPrompt(p)
    \/ handleGenerateTattoo
    \/ \E tattoo \in Range(generatedTattoos) : handleSelectTattoo(tattoo)
    \/ handleTryOnImageUpload
    \/ handleBlendTattoo
    \/ onSaveDesign
    \/ onFindArtistFromDone
    \/ \E idx \in DOMAIN filteredArtists : onContact(idx)
    \/ onCloseBooking
    \/ onSendConsultationRequest
    \/ \E i \in DOMAIN inflight :
        \/ ApiCall(i)
        \/ CompleteGenerateTattoo(i)
        \/ CompleteBlendTattoo(i)
        \/ CompleteFindArtists(i)
    \/ StorageFlips

SpecSave == Init /\ [][NextSave]_vars

\* Every handler that sets the step, the requests of the wizard and of the
\* artist search, and page reloads.
NextFlow ==
    \/ handleReset
    \/ onShowGallery
    \/ onStart
    \/ onStartFindArtist
    \/ \E p \in Prompts : setPrompt(p)
    \/ handleGenerateTattoo
    \/ \E tattoo \in Range(generatedTattoos) : handleSelectTattoo(tattoo)
    \/ handleTryOnImageUpload
    \/ handleBlendTattoo
    \/ onFindArtistFromDone
    \/ onStartOver
    \/ onSearchArtists
    \/ \E i \in DOMAIN inflight :
        \/ ApiCall(i)
        \/ ConvertFail(i)
        \/ CompleteGenerateTattoo(i)
        \/ CompleteBlendTattoo(i)
        \/ CompleteFindArtists(i)
    \/ Reload

SpecFlow == Init /\ [][NextFlow]_vars

(***************************************************************************)
(* Claims.                                                                 *)
(***************************************************************************)

\* C1: once a project operation (save, update, delete) has run, the value
\* stored under 'inkgenius_projects' is the JSON serialization of the
\* in-memory projects array, also when the operation ran from a success
\* callback and when its write failed.
C1_StorageIsJsonOfProjects ==
    lastWrite # "none" => storage = Stored(Stringify(projects))

\* C2: a page reload loads the projects array that was in memory just before
\* it; an absent or unparsable stored value loads as the empty array, and the
\* load writes nothing.
C2_ReloadRoundTrip ==
    [][Reload =>
          /\ projects' = projects
          /\ storage.kind # "json" => projects' = <<>>
          /\ storage' = storage]_vars

\* C3: the ids of the projects in memory, and of the projects stored, are
\* pairwise distinct, also after two saves at the same clock value.
IdsDistinct(ps) ==
    \A i, j \in DOMAIN ps : i # j => ps[i].id # ps[j].id
C3_IdsPairwiseDistinct ==
    /\ IdsDistinct(projects)
    /\ IdsDistinct(LoadProjects(storage))

\* C4: for each action type at most one request of that type is outstanding
\* at any time, whatever buttons are clicked and Enter keys pressed.
C4_OneOutstandingPerType ==
    \A t \in MutationTypes : Cardinality(InFlightOf(t)) <= 1

\* C5: the error that reaches the caller of a service function is an error
\* the function built itself, never the raw error of the SDK call or of the
\* file-to-part conversion.
C5_ErrorsAreWrapped ==
    \A t \in MutationTypes : mut[t].error = NULL \/ mut[t].error \in WrappedErrors

\* C6: once the error panel is displayed it stays displayed until the page
\* is reloaded.
C6_ErrorPanelStays ==
    [][errorPanelShown => errorPanelShown' \/ Reload]_vars

\* C7: a step is entered only from the step before it in the order START,
\* DESIGN, TRY_ON, DONE, FIND_ARTIST, GALLERY, the only other transition
\* being a reset to START.
LinearEntries ==
    {<<"START", "DESIGN">>, <<"DESIGN", "TRY_ON">>, <<"TRY_ON", "DONE">>,
     <<"DONE", "FIND_ARTIST">>, <<"FIND_ARTIST", "GALLERY">>}
C7_LinearFlow ==
    [][\/ appStep' = appStep
       \/ appStep' = "START"
       \/ <<appStep, appStep'>> \in LinearEntries]_vars

\* C7 as amended: DESIGN is entered only from START, TRY_ON only from
\* DESIGN, FIND_ARTIST only from START or DONE; DONE (a blend completing),
\* GALLERY (the header) and START (reset, reload) are entered from any step.
StepEntries ==
    {<<"START", "DESIGN">>, <<"DESIGN", "TRY_ON">>,
     <<"START", "FIND_ARTIST">>, <<"DONE", "FIND_ARTIST">>}
        \cup {<<from, to>> : from \in AppStep, to \in {"DONE", "GALLERY", "START"}}
C7_StepEntries ==
    [][appStep' = appStep \/ <<appStep, appStep'>> \in StepEntries]_vars

\* The artist search was entered from START, and the gallery from the
\* artist search opened there: steps no linear flow reaches.
C7_Witness ==
    /\ appStep = "GALLERY"
    /\ searchedForArtists
    /\ finalImage = NULL
    /\ generatedTattoos = <<>>
    /\ prompt = ""

\* C8: a save, from Save Design or from Send Consultation Request, adds
\* exactly one entry: projects is one longer, the entries it had are
\* unchanged and in the same order, the new entry is last and carries the
\* given artist and design image, an empty conversation and contract status
\* Pending; the header's gallery count is the number of projects.
C8_SaveAddsOneEntry ==
    [][(onSaveDesign \/ onSendConsultationRequest) =>
          LET n == Len(projects)
              added == projects'[n + 1]
              design == IF finalImage # NULL THEN finalImage ELSE selectedTattoo
          IN /\ Len(projects') = n + 1
             /\ SubSeq(projects', 1, n) = projects
             /\ onSaveDesign => added.artist = Unassigned /\ added.designImage = finalImage
             /\ onSendConsultationRequest =>
                    added.artist = bookingArtist /\ added.designImage = design
             /\ added.conversation = <<>>
             /\ added.contract.status = "Pending"
             /\ galleryItemCount' = n + 1]_vars

\* Both buttons have saved: a design of this session kept without an artist,
\* then the same design sent to an artist.
C8_Witness ==
    /\ Len(projects) = 2
    /\ projects[1].artist = Unassigned
    /\ projects[1].id > 0
    /\ projects[2].artist \in ArtistIds
    /\ projects[2].designImage = projects[1].designImage
    /\ galleryItemCount = 2

\* C9: no request is cancelled.  A step other than a page reload either
\* leaves every request in flight where it is, or is the completion of one
\* request, whose success handler is then applied (a blend sets finalImage
\* and the step DONE, a design generation sets the designs, an artist search
\* sets the search result) unless the request failed.
RequestsKept ==
    /\ Len(inflight') >= Len(inflight)
    /\ \A i \in DOMAIN inflight :
          /\ inflight'[i].type = inflight[i].type
          /\ inflight'[i].arg = inflight[i].arg
SuccessApplied(r) ==
    /\ r.cur => mut'[r.type] = Success
    /\ r.type = "blendTattoo" =>
          /\ finalImage' = DataUri("image/png", "blend of " \o r.arg)
          /\ appStep' = "DONE"
    /\ r.type = "generateTattoo" => generatedTattoos' # <<>>
    /\ r.type = "findArtists" => searchedForArtists'
FailureShown(r) ==
    /\ r.cur => mut'[r.type].status = "error"
    /\ UNCHANGED <<wizardVars, artistVars>>
C10_ExactlyOneCall ==
    [][\A i \in DOMAIN inflight :
          (inflight' = RemoveAt(inflight, i) /\ ~Reload) => inflight[i].calls = 1]_vars

\* C10 as amended: a request makes at most one call to the hosted API, and
\* exactly one unless the file-to-part conversion rejects before the call,
\* in which case it ends with that error and without a call; the step in
\* which a request ends starts no request and makes no call.
C10_NoRetry ==
    [][/\ \A i \in DOMAIN inflight' : inflight'[i].calls <= 1
       /\ \A i \in DOMAIN inflight :
             (inflight' = RemoveAt(inflight, i) /\ ~Reload) =>
                 \/ inflight[i].calls = 1
                 \/ /\ inflight[i].calls = 0
                    /\ NeedsFile(inflight[i].type, inflight[i].arg)
                    /\ inflight[i].cur => mut'[inflight[i].type] = Failed(RawError)
       /\ \A t \in MutationTypes :
             (mut[t].status = "pending" /\ mut'[t].status = "error") =>
                 \E i \in DOMAIN inflight :
                     /\ inflight[i].type = t
                     /\ inflight' = RemoveAt(inflight, i)]_vars

\* A call has failed and its request is gone: the mutation shows the error
\* and nothing of its type is in flight.
C10_Witness ==
    /\ mut["blendTattoo"].status = "error"
    /\ InFlightOf("blendTattoo") = {}
    /\ mut["generateTattoo"].status = "success"

\* The service functions, each called on its own.
NextService ==
    \/ CallHandleImageEditApiResponse
    \/ CallGenerateTattooDesign
    \/ CallSearchReferenceImages
    \/ CallFindArtists
    \/ CallGenerateArtistResponse

SpecService == InitService /\ [][NextService]_vars

\* C15: handleImageEditApiResponse returns the data URI of the first part
\* with inlineData if and only if the response has no block reason and such
\* a part exists; a block reason gives the blocked error even with an image
\* part; otherwise a finish reason other than STOP gives the stopped error,
\* otherwise the no-image error; it never returns without an image.
ImageIndexes(parts) == {i \in DOMAIN parts : parts[i].isImage}
FirstImage(parts) ==
    parts[CHOOSE i \in ImageIndexes(parts) : \A j \in ImageIndexes(parts) : i <= j]
C15_ImageOrError ==
    (svcCall.fn = "handleImageEditApiResponse" /\ svcResult # <<>>) =>
        LET r == svcCall.input
            out == svcResult[1]
            hasImage == ImageIndexes(r.parts) # {}
        IN /\ out.ok <=> (r.blockReason = NULL /\ hasImage)
           /\ out.ok =>
                 out.data = "data:" \o FirstImage(r.parts).mimeType \o ";base64,"
                                \o FirstImage(r.parts).data
           /\ r.blockReason # NULL => out.error = ErrBlocked
           /\ (r.blockReason = NULL /\ ~hasImage /\ r.finishReason \notin {NULL, "STOP"}) =>
                 out.error = ErrStopped
           /\ (r.blockReason = NULL /\ ~hasImage /\ r.finishReason \in {NULL, "STOP"}) =>
                 out.error = ErrNoImage

\* A blocked response that carries an image has been turned into the
\* blocked error.
C15_Witness ==
    /\ svcCall.fn = "handleImageEditApiResponse"
    /\ svcCall.input.blockReason # NULL
    /\ ImageIndexes(svcCall.input.parts) # {}
    /\ svcResult = <<Err(ErrBlocked)>>

\* The first sentence of the errors a function throws from its catch.
ErrorPrefix(fn) == IF fn = "generateTattooDesign" THEN ErrGenerate ELSE ErrReference

\* The call gave one data URI per image of the answer, in the answer's order.
OneUriPerImage(images, uris) ==
    /\ uris # <<>>
    /\ Len(uris) = Len(images)
    /\ \A i \in DOMAIN images :
          uris[i] = "data:" \o images[i].mimeType \o ";base64," \o images[i].imageBytes

\* C16 (as stated): generateTattooDesign and searchReferenceImages never
\* resolve with an empty list: they give one data URI per returned image in
\* order, or throw an error whose message starts with the function's own
\* prefix, also when the API returns no images.
C16_UrisOrPrefixedError ==
    (svcCall.fn \in {"generateTattooDesign", "searchReferenceImages"} /\ svcResult # <<>>) =>
        LET out == svcResult[1]
        IN IF out.ok
           THEN /\ svcCall.input.kind = "ok"
                /\ OneUriPerImage(svcCall.input.generatedImages, out.data)
           ELSE out.error = ErrorPrefix(svcCall.fn)

\* C16 (amended): as above, except that generateTattooDesign throws its
\* 'unknown error' message, which does not start with the prefix, when what
\* it caught is not an Error.
C16_UrisOrError ==
    (svcCall.fn \in {"generateTattooDesign", "searchReferenceImages"} /\ svcResult # <<>>) =>
        LET out == svcResult[1]
            unknown == svcCall.fn = "generateTattooDesign" /\ svcCall.input.kind = "rejectValue"
        IN IF out.ok
           THEN /\ svcCall.input.kind = "ok"
                /\ OneUriPerImage(svcCall.input.generatedImages, out.data)
           ELSE out.error = IF unknown THEN ErrGenerateUnknown ELSE ErrorPrefix(svcCall.fn)

\* The API returned no images and generateTattooDesign threw its error.
C16_Witness ==
    /\ svcCall.fn = "generateTattooDesign"
    /\ svcCall.input.kind = "ok"
    /\ svcCall.input.generatedImages = <<>>
    /\ svcResult = <<Err(ErrGenerate)>>

\* C17: findArtists resolves with artists equal to the JSON value parsed
\* from the response text after the leading ```json and the trailing ``` are
\* stripped, or throws an error that starts with 'Failed to find artists.';
\* text that is not valid JSON makes it throw; the resolved artists value
\* is always an array.
C17_ArtistsArrayOrError ==
    (svcCall.fn = "findArtists" /\ svcResult # <<>>) =>
        LET resp == svcCall.input
            out == svcResult[1]
            valid == /\ resp.kind = "ok"
                     /\ resp.text.present
                     /\ resp.text.isJson
                     /\ resp.text.fence \in {"none", "json"}
        IN /\ out.ok <=> valid
           /\ out.ok => out.data.artists = resp.text.value
           /\ out.ok => out.data.artists.isArray
           /\ ~out.ok => out.error = ErrArtists

\* The chunks that have both a uri and a title, and among them the first
\* of each uri.
WithUriAndTitle(chunks) ==
    {i \in DOMAIN chunks : chunks[i].uri # NULL /\ chunks[i].title # NULL}
FirstOccurrences(chunks) ==
    {i \in WithUriAndTitle(chunks) :
        \A j \in WithUriAndTitle(chunks) : j < i => chunks[j].uri # chunks[i].uri}
\* The k-th smallest member of a set of indexes.
KthOf(S, k) == CHOOSE i \in S : Cardinality({j \in S : j <= i}) = k

\* C18: the sources findArtists returns are exactly the web entries of the
\* grounding chunks that have both a uri and a title, with pairwise
\* distinct uris, each uri kept at its first occurrence and the order of
\* the first occurrences preserved.
C18_SourcesFirstOccurrences ==
    (svcCall.fn = "findArtists" /\ svcResult # <<>> /\ svcResult[1].ok) =>
        LET chunks == svcCall.input.groundingChunks
            sources == svcResult[1].data.sources
            firsts == FirstOccurrences(chunks)
        IN /\ Len(sources) = Cardinality(firsts)
           /\ \A k \in DOMAIN sources : sources[k] = chunks[KthOf(firsts, k)]
           /\ \A k, l \in DOMAIN sources : k # l => sources[k].uri # sources[l].uri
           /\ {sources[k].uri : k \in DOMAIN sources}
                 = {chunks[i].uri : i \in WithUriAndTitle(chunks)}

\* A uri that comes twice with different titles, after an entry without a
\* title: the first of the two is the one returned.
C18_Witness ==
    /\ svcCall.fn = "findArtists"
    /\ svcCall.input.kind = "ok"
    /\ svcCall.input.groundingChunks = <<Web("u2", NULL), Web("u1", "t1"), Web("u1", "t2")>>
    /\ svcResult # <<>>
    /\ svcResult[1].ok
    /\ svcResult[1].data.sources = <<Web("u1", "t1")>>

\* C19: the history of the chat generateArtistResponse creates, before
\* userMessage is sent, is conversationHistory without its last element,
\* each message with role 'user' if its sender is 'user' and 'model'
\* otherwise.
C19_ChatCreatedWithHistory ==
    (svcCall.fn = "generateArtistResponse" /\ svcResult # <<>>) =>
        LET h == svcCall.input.conversationHistory
        IN /\ Len(svcResult[1].chatHistory) = Len(h) - (IF h = <<>> THEN 0 ELSE 1)
           /\ \A i \in DOMAIN svcResult[1].chatHistory :
                 /\ svcResult[1].chatHistory[i].text = h[i].text
                 /\ svcResult[1].chatHistory[i].role
                       = IF h[i].sender = "user" THEN "user" ELSE "model"

IsPrefix(s, t) == Len(s) <= Len(t) /\ SubSeq(t, 1, Len(s)) = s

\* C11: a project's conversation is append-only: every step of the page
\* (a reload aside, which reads the stored value) leaves each project that
\* is still there with a conversation of which its previous conversation
\* is a prefix, also when a second user message is sent while the reply to
\* the first is pending.
C11_ConversationAppendOnly ==
    [][~Reload =>
          \A i \in DOMAIN projects : \A j \in DOMAIN projects' :
              projects[i].id = projects'[j].id =>
                  IsPrefix(projects[i].conversation, projects'[j].conversation)]_vars

\* The artist search from the start screen up to the consultation request,
\* which saves a project without a design, and the gallery with the
\* stencil of a project.
NextStencil ==
    \/ onStartFindArtist
    \/ \E idx \in DOMAIN filteredArtists : onContact(idx)
    \/ onSendConsultationRequest
    \/ onShowGallery
    \/ \E i \in DOMAIN projects : onViewProject(i)
    \/ onCloseProject
    \/ onGenerateStencil
    \/ onDeleteProject
    \/ \E i \in DOMAIN inflight :
        \/ ApiCall(i)
        \/ ConvertFail(i)
        \/ CompleteFindArtists(i)
        \/ CompleteGenerateStencil(i)

SpecStencil == Init /\ [][NextStencil]_vars

\* The same with the chat of a project in place of its stencil.
NextProjects ==
    \/ onStartFindArtist
    \/ \E idx \in DOMAIN filteredArtists : onContact(idx)
    \/ onSendConsultationRequest
    \/ onShowGallery
    \/ \E i \in DOMAIN projects : onViewProject(i)
    \/ onCloseProject
    \/ onDeleteProject
    \/ \E text \in ChatTexts : onChatEnter(text)
    \/ \E i \in DOMAIN inflight :
        \/ ApiCall(i)
        \/ CompleteFindArtists(i)
        \/ CompleteArtistResponse(i)

SpecProjects == Init /\ [][NextProjects]_vars

\* C12: a stencilImage that is set on a project is the result of a stencil
\* request issued with that project's designImage, also when the project
\* modal is closed or another project is opened while the request is
\* pending.
HasStencil(p) == p.stencilImage \notin {UNDEFINED, NULL, ""}
StencilOf(designImage) == "data:image/png;base64,stencil of " \o designImage
C12_StencilOfOwnDesign ==
    \A i \in DOMAIN projects :
        HasStencil(projects[i]) =>
            /\ projects[i].designImage # NULL
            /\ projects[i].stencilImage = StencilOf(projects[i].designImage)

\* C13: the status of every project's contract is one of 'Pending',
\* 'Approved', 'In Progress' and 'Completed'; the project a save adds has
\* the contract {Pending, '', ''}; and no step changes the contract of a
\* project it keeps.
C13_ContractFixed ==
    [][/\ \A j \in DOMAIN projects' : projects'[j].contract.status \in ContractStatus
       /\ onSendConsultationRequest =>
             /\ Len(projects') = Len(projects) + 1
             /\ projects'[Len(projects')].contract
                   = [status |-> "Pending", price |-> "", appointmentDate |-> ""]
       /\ \A i \in DOMAIN projects : \A j \in DOMAIN projects' :
             projects[i].id = projects'[j].id =>
                 projects[i].contract = projects'[j].contract]_vars

\* A project saved in this session has got a reply to a chat message and
\* its contract is as it was created.
C13_Witness ==
    \E i \in DOMAIN projects :
        /\ projects[i].id > 0
        /\ Len(projects[i].conversation) = 2
        /\ projects[i].contract = [status |-> "Pending", price |-> "", appointmentDate |-> ""]

\* C14: in every state the loading overlay is shown if and only if at least
\* one request is pending (issued and not yet ended), the error panel is
\* shown if and only if at least one of the seven mutations is in the error
\* state, and no mutation is pending and in error at once.
C14_OverlaysFollowRequests ==
    /\ loadingOverlayShown <=> inflight # <<>>
    /\ errorPanelShown <=> \E t \in MutationTypes : mut[t].status = "error"
    /\ \A t \in MutationTypes : ~(mut[t].status = "pending" /\ mut[t].error # NULL)

\* The step issues one findArtists request, with this image.
SearchSends(image) ==
    /\ Len(inflight') = Len(inflight) + 1
    /\ inflight'[Len(inflight')].type = "findArtists"
    /\ inflight'[Len(inflight')].arg = image

\* C20: a search started from the FIND_ARTIST or DONE screen sends
\* finalImage when it is set, otherwise selectedTattoo when it is set,
\* otherwise no image; a search started from the start screen sends no
\* image and leaves finalImage and selectedTattoo null.
C20_SearchSendsDesign ==
    [][/\ (onSearchArtists \/ onFindArtistFromDone) =>
             SearchSends(IF finalImage # NULL THEN finalImage
                         ELSE IF selectedTattoo # NULL THEN selectedTattoo
                         ELSE NULL)
       /\ onStartFindArtist =>
             /\ SearchSends(NULL)
             /\ finalImage' = NULL
             /\ selectedTattoo' = NULL]_vars

\* A search from the DONE screen is pending with the final image, which is
\* not the selected tattoo.
C20_Witness ==
    /\ appStep = "FIND_ARTIST"
    /\ finalImage # NULL
    /\ selectedTattoo # NULL
    /\ selectedTattoo # finalImage
    /\ \E i \in DOMAIN inflight :
          inflight[i].type = "findArtists" /\ inflight[i].arg = finalImage

\* C21: an artist reply is appended to the conversation of the project in
\* which the user message it answers was sent, never to another project:
\* every artist message of a conversation has before it, in the same
\* conversation, a user message of which it is the reply.
C21_ReplyInProjectOfMessage ==
    \A i \in DOMAIN projects :
        \A k \in DOMAIN projects[i].conversation :
            projects[i].conversation[k].sender = "artist" =>
                \E j \in 1..(k - 1) :
                    /\ projects[i].conversation[j].sender = "user"
                    /\ [kind |-> "ok", text |-> projects[i].conversation[k].text]
                          \in ReplyAnswers(projects[i].conversation[j].text)

\* C22: the result of an earlier-issued artist search never overwrites the
\* result of a later-issued one: when the latest search has succeeded, the
\* end of a search issued before it leaves the displayed artists, sources,
\* specialty list and map centre as they are.
C22_LatestSearchWins ==
    [][\A i \in DOMAIN inflight :
          (/\ inflight[i].type = "findArtists"
           /\ ~inflight[i].cur
           /\ mut["findArtists"].status = "success"
           /\ inflight' = RemoveAt(inflight, i))
          => UNCHANGED <<artists, artistSearchSources, allSpecialties, mapCenter>>]_vars

\* The design step with the reference search, the choice of a reference
\* image and its style description, resets and page reloads.
NextReference ==
    \/ handleReset
    \/ onStart
    \/ \E q \in ReferenceQueries : setReferenceSearchQuery(q)
    \/ handleSearchReference
    \/ \E image \in Range(referenceImages) : handleSelectReferenceImage(image)
    \/ \E p \in Prompts : setPrompt(p)
    \/ handleGenerateTattoo
    \/ \E i \in DOMAIN inflight :
        \/ ApiCall(i)
        \/ ConvertFail(i)
        \/ CompleteSearchReference(i)
        \/ CompleteDescribeStyle(i)
        \/ CompleteGenerateTattoo(i)
    \/ Reload

SpecReference == Init /\ [][NextReference]_vars

\* C23: in every state where no describe-style request is pending (and
\* none has failed), styleDescription is empty when no reference image is
\* selected, and otherwise is the description returned for the selected
\* image.
C23_DescriptionOfSelectedImage ==
    (InFlightOf("describeStyle") = {} /\ mut["describeStyle"].status # "error") =>
        IF selectedReferenceImage = NULL
        THEN styleDescription = ""
        ELSE [kind |-> "ok", text |-> styleDescription]
                \in DescribeAnswers(selectedReferenceImage)

\* The artist search from the start screen with its specialty filter,
\* repeated searches, resets and page reloads.
NextArtists ==
    \/ handleReset
    \/ onStartFindArtist
    \/ onSearchArtists
    \/ \E spec \in Range(allSpecialties) : onToggleSpecialty(spec)
    \/ \E i \in DOMAIN inflight :
        \/ ApiCall(i)
        \/ CompleteFindArtists(i)
    \/ Reload

SpecArtists == Init /\ [][NextArtists]_vars

\* C24: in every state the active specialty filter is a subset of the
\* specialties offered as filter buttons.
C24_FilterWithinOffered ==
    Range(artistSpecialtyFilter) \subseteq Range(allSpecialties)

\* C25: in every state the TRY_ON step has a selected tattoo and the DONE
\* step has a final image, whatever the interleaving of user actions and
\* request completions.
C25_NoBlankStep ==
    /\ appStep = "TRY_ON" => selectedTattoo # NULL
    /\ appStep = "DONE" => finalImage # NULL

\* A blend asked for before a reset has completed after the artist search
\* was started from the start screen: the step is DONE with the final
\* image, and the search is still pending.
C25_Witness ==
    /\ appStep = "DONE"
    /\ finalImage # NULL
    /\ selectedTattoo = NULL
    /\ InFlightOf("findArtists") # {}

ProjectIds(ps) == {ps[i].id : i \in DOMAIN ps}

\* C26: deletion is permanent: the confirmed Delete Project removes exactly
\* the projects with the id of the project viewed, keeping the others in
\* their order, and no later step of the page (a reload aside, which reads
\* the stored value) brings the id of a removed project back into the
\* in-memory array or into storage, also when a stencil or reply request
\* for the project completes after the deletion.
C26_DeletionIsPermanent ==
    [][/\ onDeleteProject =>
             /\ ProjectIds(projects') = ProjectIds(projects) \ {viewingProject[1].id}
             /\ projects' = SelectSeq(projects, LAMBDA q : q.id # viewingProject[1].id)
       /\ ~Reload =>
             /\ ProjectIds(projects') \subseteq ProjectIds(projects)
             /\ ProjectIds(LoadProjects(storage')) \subseteq ProjectIds(LoadProjects(storage))]_vars

====
